---- MODULE Spec2Model ----
(***************************************************************************)
(* State-machine model of src/index.js: the converter between BoardGameGeek *)
(* forum markup ("GeekText") and Markdown.                                  *)
(*                                                                          *)
(* Text is modelled character for character as TLA+ strings.  Every regex   *)
(* of the source becomes an operator that returns, for a position i of the  *)
(* text, the index just after the match the regex finds at i (0 when the    *)
(* regex does not match at i); String.prototype.replace with the g flag is  *)
(* the operator ReplaceAll over such a matcher.                             *)
(*                                                                          *)
(* A TLA+ string literal cannot hold a backtick, so the model writes the    *)
(* backtick of the source as an apostrophe (BT); no regex of the source     *)
(* mentions the apostrophe, so the renaming is one to one.                  *)
(***************************************************************************)
EXTENDS Integers, Sequences, FiniteSets, TLC

VARIABLES
    dir,        \* direction of the running call: "bgg2md" or "md2bgg"
    pc,         \* position in the call
    input,      \* the argument of the running call
    text,       \* `text` of protectSegments, then `out` of the converter
    t1,         \* `t1`: the protected text handed to the rewrite passes
    store,      \* `store` of protectSegments: set of <<token, chunk>>, one per key
    counter,    \* `counter` of protectSegments
    startIdx,   \* locals of the last loop iteration of protectSegments
    afterStart, \*   (0-based as in the source; -1 before the first iteration)
    endIdx,
    run,        \* "first" call, or "second" call made on the first one's result
    first,      \* the first call: [dir, input, out]
    hashes,     \* argument/result of the heading helpers
    size        \* argument/result of the size helpers

vars == <<dir, pc, input, text, t1, store, counter, startIdx, afterStart,
          endIdx, run, first, hashes, size>>

-----------------------------------------------------------------------------
(* Bounds of the model *)

\* inputs are concatenations of at most MaxPieces pieces
MaxPieces == 3
\* lists of the list scenario hold at most MaxItems items
MaxItems == 3
\* the engine's limit on the length of a string (a RangeError beyond it)
MaxStringLength == 150
\* sizes tried with sizeToHeading are 0 .. MaxSize
MaxSize == 120
\* headings tried with headingToSize have 1 .. MaxDepth hashes
MaxDepth == 7

-----------------------------------------------------------------------------
(* Characters and strings *)

BT == "'"
NL == "\n"
FENCE == BT \o BT \o BT

Min(S) == CHOOSE x \in S : \A y \in S : x <= y
Max(S) == CHOOSE x \in S : \A y \in S : x >= y

Ch(s, i) == IF i >= 1 /\ i <= Len(s) THEN SubSeq(s, i, i) ELSE ""

UPPER == "ABCDEFGHIJKLMNOPQRSTUVWXYZ"
LOWER == "abcdefghijklmnopqrstuvwxyz"
DIGITS == "0123456789"

UpperChars == {Ch(UPPER, k) : k \in 1..26}
LowerChars == {Ch(LOWER, k) : k \in 1..26}
DigitChars == {Ch(DIGITS, k) : k \in 1..10}

\* \s of the regexes, and the line terminators that "." and "$" stop at
WhiteSpace == {" ", "\t", "\n", "\r", "\f"}
LineTerminators == {"\n", "\r"}

LowerCh(c) ==
    IF c \in UpperChars
    THEN Ch(LOWER, CHOOSE k \in 1..26 : Ch(UPPER, k) = c)
    ELSE c

RECURSIVE ToLower(_)
ToLower(s) == IF s = "" THEN "" ELSE LowerCh(Ch(s, 1)) \o ToLower(Tail(s))

\* s.slice(from0, to0) with 0-based arguments, as a 1-based SubSeq: empty when
\* to0 <= from0
Slice(s, from0, to0) ==
    LET a == IF from0 > Len(s) THEN Len(s) ELSE from0
        b == IF to0 > Len(s) THEN Len(s) ELSE to0
    IN  IF b <= a THEN "" ELSE SubSeq(s, a + 1, b)

\* the literal lit (lower case when ci) matches t at position i
MatchAt(t, i, lit, ci) ==
    /\ i >= 1
    /\ i + Len(lit) - 1 <= Len(t)
    /\ LET w == SubSeq(t, i, i + Len(lit) - 1)
       IN  \/ w = lit
           \/ ci /\ LowerCh(Ch(w, 1)) = Ch(lit, 1) /\ ToLower(w) = lit

\* index of the first match of lit at or after from; 0 when there is none
IndexOf(t, lit, from, ci) ==
    LET S == {j \in from..(Len(t) + 1 - Len(lit)) : MatchAt(t, j, lit, ci)}
    IN  IF S = {} THEN 0 ELSE Min(S)

Contains(t, lit) == IndexOf(t, lit, 1, FALSE) > 0

\* length of the longest run of characters of class C that starts at i
RECURSIVE RunLen(_, _, _)
RunLen(t, i, C) == IF Ch(t, i) \in C THEN 1 + RunLen(t, i + 1, C) ELSE 0

\* length of the longest run of characters outside class C that starts at i
RECURSIVE RunLenNot(_, _, _)
RunLenNot(t, i, C) ==
    IF i <= Len(t) /\ Ch(t, i) \notin C THEN 1 + RunLenNot(t, i + 1, C) ELSE 0

\* String(n): the decimal digits of a natural number
RECURSIVE ToStr(_)
ToStr(n) ==
    IF n < 10 THEN Ch(DIGITS, n + 1)
    ELSE ToStr(n \div 10) \o Ch(DIGITS, (n % 10) + 1)

DigitVal(c) == (CHOOSE k \in 1..10 : Ch(DIGITS, k) = c) - 1

\* parseInt(s, 10) of a string of digits
RECURSIVE ParseDigits(_, _)
ParseDigits(s, acc) ==
    IF s = "" THEN acc
    ELSE ParseDigits(Tail(s), 10 * acc + DigitVal(Ch(s, 1)))

\* s.replace(/^\n+|\n+$/g, "")
TrimNewlines(s) ==
    LET lead == RunLen(s, 1, {NL})
        rest == SubSeq(s, lead + 1, Len(s))
        E == {k \in 0..Len(rest) : \A j \in (k + 1)..Len(rest) : Ch(rest, j) = NL}
    IN  SubSeq(rest, 1, Min(E))

\* s.trim()
Trim(s) ==
    LET lead == RunLen(s, 1, WhiteSpace)
        rest == SubSeq(s, lead + 1, Len(s))
        E == {k \in 0..Len(rest) :
                \A j \in (k + 1)..Len(rest) : Ch(rest, j) \in WhiteSpace}
    IN  SubSeq(rest, 1, Min(E))

\* s.split(/\r?\n/): the lines of s
RECURSIVE SplitLines(_)
SplitLines(s) ==
    LET j == IndexOf(s, NL, 1, FALSE)
    IN  IF j = 0 THEN <<s>>
        ELSE LET k == IF j > 1 /\ Ch(s, j - 1) = "\r" THEN j - 2 ELSE j - 1
             IN  <<SubSeq(s, 1, k)>> \o SplitLines(SubSeq(s, j + 1, Len(s)))

\* parts.join(sep)
RECURSIVE Join(_, _)
Join(parts, sep) ==
    IF Len(parts) = 0 THEN ""
    ELSE IF Len(parts) = 1 THEN parts[1]
    ELSE parts[1] \o sep \o Join(Tail(parts), sep)

-----------------------------------------------------------------------------
(* protectSegments *)

\* the protection rule each converter passes to protectSegments
RuleName(d) == IF d = "bgg2md" THEN "CODE_BGG" ELSE "CODE_FENCE"

\* re.exec / endRe.exec: both regexes are built without the g (and y) flag, so
\* exec ignores the lastIndex the code assigns and searches from index 0
ExecFrom(lastIndex) == 0

\* the match of the rule's start regex in t searched from 0-based index from0:
\* <<index, length>> (0-based index), <<-1, 0>> when there is none
\*   bgg2md: /\[code\]/i        md2bgg: /```[\s\S]*?\n/
StartMatch(d, t, from0) ==
    IF d = "bgg2md"
    THEN LET j == IndexOf(t, "[code]", from0 + 1, TRUE)
         IN  IF j = 0 THEN <<-1, 0>> ELSE <<j - 1, 6>>
    ELSE LET j == IndexOf(t, FENCE, from0 + 1, FALSE)
             k == IF j = 0 THEN 0 ELSE IndexOf(t, NL, j + 3, FALSE)
         IN  IF k = 0 THEN <<-1, 0>> ELSE <<j - 1, k - j + 1>>

\* the match of the rule's end regex:  /\[\/code\]/i   resp.  /\n```/
EndMatch(d, t, from0) ==
    IF d = "bgg2md"
    THEN LET j == IndexOf(t, "[/code]", from0 + 1, TRUE)
         IN  IF j = 0 THEN <<-1, 0>> ELSE <<j - 1, 7>>
    ELSE LET j == IndexOf(t, NL \o FENCE, from0 + 1, FALSE)
         IN  IF j = 0 THEN <<-1, 0>> ELSE <<j - 1, 4>>

\* `__PROTECTED_${name}_${counter++}__`
Token(name, n) == "__PROTECTED_" \o name \o "_" \o ToStr(n) \o "__"

\* Splice with the tail taken one character early
SpliceOneEarly(t, s0, e0, token) ==
    Slice(t, 0, s0) \o token \o Slice(t, e0 - 1, Len(t))

\* text.slice(0, startIdx) + token + text.slice(endIdx)
Splice(t, s0, e0, token) == Slice(t, 0, s0) \o token \o Slice(t, e0, Len(t))

\* store[token] = chunk
Put(st, token, chunk) ==
    [k \in (DOMAIN st) \cup {token} |-> IF k = token THEN chunk ELSE st[k]]

\* the restore regex /__PROTECTED_([A-Z0-9_]+?)_(\d+)__/ at position i: index
\* just after the match, 0 when it does not match at i
TokenEnd(t, i) ==
    IF ~MatchAt(t, i, "__PROTECTED_", FALSE) THEN 0
    ELSE LET p == i + 12
             nameMax == RunLen(t, p, UpperChars \cup DigitChars \cup {"_"})
             Ends == {n \in 1..nameMax :
                        /\ Ch(t, p + n) = "_"
                        /\ LET d == RunLen(t, p + n + 1, DigitChars)
                           IN  d >= 1 /\ MatchAt(t, p + n + 1 + d, "__", FALSE)}
         IN  IF Ends = {} THEN 0
             ELSE LET n == Min(Ends)
                      d == RunLen(t, p + n + 1, DigitChars)
                  IN  p + n + 1 + d + 2

\* TokenRender with a lookup that never finds the token
TokenRenderMiss(st, t, i, e) == SubSeq(t, i, e - 1)

\* (t) => store[t] ?? t
TokenRender(st, t, i, e) ==
    LET tok == SubSeq(t, i, e - 1)
    IN  IF tok \in DOMAIN st THEN st[tok] ELSE tok

\* restore: s.replace(/__PROTECTED_..._(\d+)__/g, (t) => store[t] ?? t)
RECURSIVE RestoreFrom(_, _, _)
RestoreFrom(st, t, cur) ==
    LET S == {i \in cur..Len(t) : TokenEnd(t, i) > 0}
    IN  IF S = {} THEN SubSeq(t, cur, Len(t))
        ELSE LET i == Min(S)
                 e == TokenEnd(t, i)
             IN  SubSeq(t, cur, i - 1) \o TokenRender(st, t, i, e)
                    \o RestoreFrom(st, t, e)

restore(st, s) == RestoreFrom(st, s, 1)

-----------------------------------------------------------------------------
(* Size <-> heading *)

\* the table of sizeToHashes in ascending order
sizeToHashesLowestFirst ==
    << [threshold |-> 10, hashes |-> "######"],
       [threshold |-> 12, hashes |-> "#####"],
       [threshold |-> 14, hashes |-> "####"],
       [threshold |-> 16, hashes |-> "###"],
       [threshold |-> 18, hashes |-> "##"],
       [threshold |-> 24, hashes |-> "#"] >>

sizeToHashes ==
    << [threshold |-> 24, hashes |-> "#"],
       [threshold |-> 18, hashes |-> "##"],
       [threshold |-> 16, hashes |-> "###"],
       [threshold |-> 14, hashes |-> "####"],
       [threshold |-> 12, hashes |-> "#####"],
       [threshold |-> 10, hashes |-> "######"] >>

\* the value null of the source
Null == ""

\* the table scan of sizeToHeading, in table order from entry k on
RECURSIVE ScanTable(_, _)
ScanTable(n, k) ==
    IF k > Len(sizeToHashes) THEN Null
    ELSE IF n >= sizeToHashes[k].threshold THEN sizeToHashes[k].hashes
    ELSE ScanTable(n, k + 1)

\* sizeToHeading(sizeStr): parseInt reads the leading digits, and gives NaN
\* (`if (!isFinite(n)) return null`) when there are none
sizeToHeading(sizeStr) ==
    LET d == RunLen(sizeStr, 1, DigitChars)
    IN  IF d = 0 THEN Null
        ELSE ScanTable(ParseDigits(SubSeq(sizeStr, 1, d), 0), 1)

headingToSize(h) ==
    CASE Len(h) = 1 -> 24
      [] Len(h) = 2 -> 18
      [] Len(h) = 3 -> 16
      [] Len(h) = 4 -> 14
      [] Len(h) = 5 -> 12
      [] OTHER -> 10

-----------------------------------------------------------------------------
(* Regex matchers shared by the passes *)

\* /OPEN([\s\S]*?)CLOSE/ at i: index just after the match, 0 when none
PairEnd(t, i, open, close, ci) ==
    IF ~MatchAt(t, i, open, ci) THEN 0
    ELSE LET j == IndexOf(t, close, i + Len(open), ci)
         IN  IF j = 0 THEN 0 ELSE j + Len(close)

\* the captured body of a match t[i..e-1] whose opening and closing parts have
\* the lengths ol and cl
Body(t, i, e, ol, cl) == SubSeq(t, i + ol, e - cl - 1)

\* OPEN=([^\]]+)]  or  OPEN=(\d+)]  at i: length of the opening tag, 0 when none
OpenArgLen(t, i, open, isDigits, maxLen) ==
    IF ~MatchAt(t, i, open, TRUE) THEN 0
    ELSE LET p == i + Len(open)
             n == IF isDigits THEN RunLen(t, p, DigitChars)
                  ELSE RunLenNot(t, p, {"]"})
         IN  IF n >= 1 /\ n <= maxLen /\ Ch(t, p + n) = "]"
             THEN Len(open) + n + 1 ELSE 0

ArgPairEnd(t, i, open, isDigits, maxLen, close) ==
    LET ol == OpenArgLen(t, i, open, isDigits, maxLen)
    IN  IF ol = 0 THEN 0
        ELSE LET j == IndexOf(t, close, i + ol, TRUE)
             IN  IF j = 0 THEN 0 ELSE j + Len(close)

\* no limit on the length of an argument
NoLimit == MaxStringLength

-----------------------------------------------------------------------------
(* The BGG -> Markdown passes *)

\* convert a BGG [quote] body into a Markdown blockquote
quoteBodyToMarkdown(body) ==
    LET lines == SplitLines(TrimNewlines(body))
    IN  Join([k \in 1..Len(lines) |-> "> " \o lines[k]], NL) \o NL \o NL

\* it.replace(/\[\/*\]/g, ""): the matcher of /\[\/*\]/
StrayEnd(t, i) ==
    IF Ch(t, i) # "[" THEN 0
    ELSE LET n == RunLen(t, i + 1, {"/"})
         IN  IF Ch(t, i + 1 + n) = "]" THEN i + n + 2 ELSE 0

RECURSIVE StripStray(_, _)
StripStray(t, cur) ==
    LET S == {i \in cur..Len(t) : StrayEnd(t, i) > 0}
    IN  IF S = {} THEN SubSeq(t, cur, Len(t))
        ELSE LET i == Min(S)
             IN  SubSeq(t, cur, i - 1) \o StripStray(t, StrayEnd(t, i))

\* the separator regex of the list split, /\n?\[\*\]\s*/i, at i
ItemMarkEnd(t, i) ==
    LET p == IF Ch(t, i) = NL THEN i + 1 ELSE i
    IN  IF MatchAt(t, p, "[*]", FALSE)
        THEN p + 3 + RunLen(t, p + 3, WhiteSpace) ELSE 0

\* body.split(/\n?\[\*\]\s*/i)
RECURSIVE SplitItems(_)
SplitItems(s) ==
    LET S == {i \in 1..Len(s) : ItemMarkEnd(s, i) > 0}
    IN  IF S = {} THEN <<s>>
        ELSE LET i == Min(S)
             IN  <<SubSeq(s, 1, i - 1)>>
                    \o SplitItems(SubSeq(s, ItemMarkEnd(s, i), Len(s)))

\* body.replace(/\r?\n/g, "\n")
RECURSIVE NormalizeNewlines(_)
NormalizeNewlines(s) ==
    LET j == IndexOf(s, "\r\n", 1, FALSE)
    IN  IF j = 0 THEN s
        ELSE SubSeq(s, 1, j - 1) \o NL \o NormalizeNewlines(SubSeq(s, j + 2, Len(s)))

\* .map((s) => s.trim()).filter(Boolean)
ListItems(body) ==
    LET parts == SplitItems(NormalizeNewlines(body))
        trimmed == [k \in 1..Len(parts) |-> Trim(parts[k])]
    IN  SelectSeq(trimmed, LAMBDA s : s # "")

\* ListRender with the numbering started at 0
ListRenderFromZero(body, ordered) ==
    LET parts == SplitItems(NormalizeNewlines(body))
        items == SelectSeq([k \in 1..Len(parts) |-> Trim(parts[k])],
                           LAMBDA s : s # "")
        line(k) == (IF ordered THEN ToStr(k - 1) \o ". " ELSE "- ")
                      \o Trim(StripStray(items[k], 1))
    IN  IF Len(items) = 0 THEN ""
        ELSE NL \o Join([k \in 1..Len(items) |-> line(k)], NL) \o NL

\* the replacement of a [list] (ordered = FALSE) or [olist] block
ListRender(body, ordered) ==
    LET items == ListItems(body)
        line(k) == (IF ordered THEN ToStr(k) \o ". " ELSE "- ")
                      \o Trim(StripStray(items[k], 1))
    IN  IF Len(items) = 0 THEN ""
        ELSE NL \o Join([k \in 1..Len(items) |-> line(k)], NL) \o NL

\* the longest inner text the [size] pass turns into a heading
HeadingMaxLen == 120

\* the replacement of [size=sz]text[/size]
SizeRender(sz, body) ==
    LET h == sizeToHeading(sz)
        inner == Trim(body)
    IN  IF /\ h # Null
           /\ Len(inner) <= HeadingMaxLen
           /\ ~Contains(inner, "\r")
           /\ ~Contains(inner, NL)
        THEN NL \o h \o " " \o inner \o NL \o NL
        ELSE inner

\* /\[br\s*\/?\]/i at i
BrEnd(t, i) ==
    IF ~MatchAt(t, i, "[br", TRUE) THEN 0
    ELSE LET p == i + 3 + RunLen(t, i + 3, WhiteSpace)
             q == IF Ch(t, p) = "/" THEN p + 1 ELSE p
         IN  IF Ch(t, q) = "]" THEN q + 1 ELSE 0

BggKinds ==
    << "code", "tt", "b", "i", "u", "s", "-", "url", "img", "thing", "user",
       "quote", "list", "olist", "size", "br" >>

\* the regex of each pass at position i of t: index just after its match, or 0
BggMatchEnd(kind, t, i) ==
    CASE kind = "code"  -> PairEnd(t, i, "[code]", "[/code]", TRUE)
      [] kind = "tt"    -> PairEnd(t, i, "[tt]", "[/tt]", TRUE)
      [] kind = "b"     -> PairEnd(t, i, "[b]", "[/b]", TRUE)
      [] kind = "i"     -> PairEnd(t, i, "[i]", "[/i]", TRUE)
      [] kind = "u"     -> PairEnd(t, i, "[u]", "[/u]", TRUE)
      [] kind = "s"     -> PairEnd(t, i, "[s]", "[/s]", TRUE)
      [] kind = "-"     -> PairEnd(t, i, "[-]", "[/-]", TRUE)
      [] kind = "url"   -> ArgPairEnd(t, i, "[url=", FALSE, NoLimit, "[/url]")
      [] kind = "img"   -> PairEnd(t, i, "[img]", "[/img]", TRUE)
      [] kind = "thing" -> ArgPairEnd(t, i, "[thing=", TRUE, NoLimit, "[/thing]")
      [] kind = "user"  -> ArgPairEnd(t, i, "[user=", TRUE, NoLimit, "[/user]")
      [] kind = "quote" -> PairEnd(t, i, "[quote]", "[/quote]", TRUE)
      [] kind = "list"  -> PairEnd(t, i, "[list]", "[/list]", TRUE)
      [] kind = "olist" -> PairEnd(t, i, "[olist]", "[/olist]", TRUE)
      [] kind = "size"  -> ArgPairEnd(t, i, "[size=", TRUE, 3, "[/size]")
      [] kind = "br"    -> BrEnd(t, i)

\* the replacement each pass gives for its match t[i..e-1]
BggRender(kind, t, i, e) ==
    CASE kind = "code"  ->
            NL \o FENCE \o NL \o TrimNewlines(Body(t, i, e, 6, 7))
               \o NL \o FENCE \o NL
      [] kind = "tt"    -> BT \o Body(t, i, e, 4, 5) \o BT
      [] kind = "b"     -> "**" \o Body(t, i, e, 3, 4) \o "**"
      [] kind = "i"     -> "*" \o Body(t, i, e, 3, 4) \o "*"
      [] kind = "u"     -> "<u>" \o Body(t, i, e, 3, 4) \o "</u>"
      [] kind = "s"     -> "~~" \o Body(t, i, e, 3, 4) \o "~~"
      [] kind = "-"     -> "~~" \o Body(t, i, e, 3, 4) \o "~~"
      [] kind = "url"   ->
            LET ol == OpenArgLen(t, i, "[url=", FALSE, NoLimit)
            IN  "[" \o Body(t, i, e, ol, 6) \o "]("
                    \o SubSeq(t, i + 5, i + ol - 2) \o ")"
      [] kind = "img"   -> "![](" \o Body(t, i, e, 5, 6) \o ")"
      [] kind = "thing" ->
            LET ol == OpenArgLen(t, i, "[thing=", TRUE, NoLimit)
            IN  "[" \o Body(t, i, e, ol, 8)
                    \o "](https://boardgamegeek.com/thing/"
                    \o SubSeq(t, i + 7, i + ol - 2) \o ")"
      [] kind = "user"  ->
            LET ol == OpenArgLen(t, i, "[user=", TRUE, NoLimit)
                name == Body(t, i, e, ol, 7)
            IN  "[@" \o name \o "](https://boardgamegeek.com/user/" \o name \o ")"
      [] kind = "quote" -> quoteBodyToMarkdown(Body(t, i, e, 7, 8))
      [] kind = "list"  -> ListRender(Body(t, i, e, 6, 7), FALSE)
      [] kind = "olist" -> ListRender(Body(t, i, e, 7, 8), TRUE)
      [] kind = "size"  ->
            LET ol == OpenArgLen(t, i, "[size=", TRUE, 3)
            IN  SizeRender(SubSeq(t, i + 6, i + ol - 2), Body(t, i, e, ol, 7))
      [] kind = "br"    -> "  " \o NL

\* out.replace(regex-with-g-flag, replacement) from position cur on
RECURSIVE BggReplaceAll(_, _, _)
BggReplaceAll(kind, t, cur) ==
    LET S == {i \in cur..Len(t) : BggMatchEnd(kind, t, i) > 0}
    IN  IF S = {} THEN SubSeq(t, cur, Len(t))
        ELSE LET i == Min(S)
                 e == BggMatchEnd(kind, t, i)
             IN  SubSeq(t, cur, i - 1) \o BggRender(kind, t, i, e)
                    \o BggReplaceAll(kind, t, e)

\* the passes of bggToMarkdown from pass k on, in the order of the source
RECURSIVE BggPassesFrom(_, _)
BggPassesFrom(t, k) ==
    IF k > Len(BggKinds) THEN t
    ELSE BggPassesFrom(BggReplaceAll(BggKinds[k], t, 1), k + 1)

BggPasses(t) == BggPassesFrom(t, 1)

-----------------------------------------------------------------------------
(* The Markdown -> BGG passes *)

\* /```([a-z0-9_-]+)?\n/i at i: length of the opening fence line, 0 when none
LangChars == LowerChars \cup UpperChars \cup DigitChars \cup {"_", "-"}

FenceOpenLen(t, i) ==
    IF ~MatchAt(t, i, FENCE, FALSE) THEN 0
    ELSE LET n == RunLen(t, i + 3, LangChars)
         IN  IF Ch(t, i + 3 + n) = NL THEN n + 4 ELSE 0

\* /```([a-z0-9_-]+)?\n([\s\S]*?)\n```/gi at i
FenceEnd(t, i) ==
    LET ol == FenceOpenLen(t, i)
    IN  IF ol = 0 THEN 0
        ELSE LET j == IndexOf(t, NL \o FENCE, i + ol, FALSE)
             IN  IF j = 0 THEN 0 ELSE j + 4

\* /`([^`\n]+)`/g at i
InlineCodeEnd(t, i) ==
    IF Ch(t, i) # BT THEN 0
    ELSE LET n == RunLenNot(t, i + 1, {BT, NL})
         IN  IF n >= 1 /\ Ch(t, i + 1 + n) = BT THEN i + n + 2 ELSE 0

\* l.replace(/^>\s?/, "")
StripQuoteMark(l) ==
    IF Ch(l, 1) # ">" THEN l
    ELSE IF Ch(l, 2) \in WhiteSpace THEN SubSeq(l, 3, Len(l))
    ELSE SubSeq(l, 2, Len(l))

\* flush() of blockquoteMarkdownToBgg
Flush(out, buf) ==
    IF Len(buf) = 0 THEN out
    ELSE Append(out, "[quote]" \o NL
                       \o Join([k \in 1..Len(buf) |-> StripQuoteMark(buf[k])], NL)
                       \o NL \o "[/quote]")

\* the loop over the lines of blockquoteMarkdownToBgg, from line k on
RECURSIVE QuoteWalk(_, _, _, _)
QuoteWalk(lines, k, out, buf) ==
    IF k > Len(lines) THEN Flush(out, buf)
    ELSE IF Ch(lines[k], 1) = ">"
         THEN QuoteWalk(lines, k + 1, out, Append(buf, lines[k]))
         ELSE QuoteWalk(lines, k + 1, Append(Flush(out, buf), lines[k]), <<>>)

blockquoteMarkdownToBgg(md) == Join(QuoteWalk(SplitLines(md), 1, <<>>, <<>>), NL)

\* \s+(.+) at q, as the backtracking matcher finds it: the longest run of
\* white space after which a character other than a line terminator follows,
\* then every character up to the next line terminator.  <<start of the text,
\* index just after it>>, <<0, 0>> when there is no match
SpaceThenText(t, q) ==
    LET w == RunLen(t, q, WhiteSpace)
        K == {k \in 1..w : q + k <= Len(t) /\ Ch(t, q + k) \notin LineTerminators}
    IN  IF K = {} THEN <<0, 0>>
        ELSE LET k == Max(K)
             IN  <<q + k, q + k + RunLenNot(t, q + k, LineTerminators)>>

\* /^(#{1,6})\s+(.+)$/gm at i: <<number of hashes, start of the text, end>>
HeadingMatch(t, i) ==
    LET n == RunLen(t, i, {"#"})
        m == SpaceThenText(t, i + n)
    IN  IF /\ (i = 1 \/ Ch(t, i - 1) \in LineTerminators)
           /\ n >= 1 /\ n <= 6
           /\ m[2] > 0
        THEN <<n, m[1], m[2]>> ELSE <<0, 0, 0>>

\* /(?<!c)c([^\s c][\s\S]*?)c(?!c)/g at i, c the asterisk or the underscore
EmphasisEnd(t, i, c) ==
    IF /\ Ch(t, i) = c
       /\ Ch(t, i - 1) # c
       /\ i + 1 <= Len(t)
       /\ Ch(t, i + 1) \notin (WhiteSpace \cup {c})
    THEN LET J == {j \in (i + 2)..Len(t) : Ch(t, j) = c /\ Ch(t, j + 1) # c}
         IN  IF J = {} THEN 0 ELSE Min(J) + 1
    ELSE 0

\* \]\((https?:\/\/[^)]+)\) at p, the position of the closing bracket:
\* index just after the match, 0 when none
TargetEnd(t, p) ==
    IF ~MatchAt(t, p, "](http", FALSE) THEN 0
    ELSE LET q == IF Ch(t, p + 6) = "s" THEN p + 7 ELSE p + 6
             n == RunLenNot(t, q + 3, {")"})
         IN  IF MatchAt(t, q, "://", FALSE) /\ n >= 1 /\ Ch(t, q + 3 + n) = ")"
             THEN q + 3 + n + 1 ELSE 0

\* /\[([^\]]+)\]\((https?:\/\/[^)]+)\)/g at i
LinkEnd(t, i) ==
    IF Ch(t, i) # "[" THEN 0
    ELSE LET n == RunLenNot(t, i + 1, {"]"})
         IN  IF n >= 1 THEN TargetEnd(t, i + 1 + n) ELSE 0

\* /!\[([^\]]*)\]\((https?:\/\/[^)]+)\)/g at i
ImageEnd(t, i) ==
    IF ~MatchAt(t, i, "![", FALSE) THEN 0
    ELSE TargetEnd(t, i + 2 + RunLenNot(t, i + 2, {"]"}))

\* /boardgamegeek\.com\/(?:thing|boardgame)\/(\d+)/i.exec(href): the id, Null
\* when there is no match
ThingId(href) ==
    LET h == ToLower(href)
        At(i, w) == /\ MatchAt(h, i, "boardgamegeek.com/" \o w \o "/", FALSE)
                    /\ Ch(h, i + 19 + Len(w)) \in DigitChars
        S == {i \in 1..Len(h) : At(i, "thing") \/ At(i, "boardgame")}
    IN  IF S = {} THEN Null
        ELSE LET i == Min(S)
                 p == IF At(i, "thing") THEN i + 24 ELSE i + 28
             IN  SubSeq(h, p, p + RunLen(h, p, DigitChars) - 1)

\* /boardgamegeek\.com\/user\/([A-Za-z0-9_-]+)/i.exec(href): the name
UserName(href) ==
    LET h == ToLower(href)
        S == {i \in 1..Len(h) :
                /\ MatchAt(h, i, "boardgamegeek.com/user/", FALSE)
                /\ Ch(h, i + 23) \in LangChars}
    IN  IF S = {} THEN Null
        ELSE LET p == Min(S) + 23
             IN  SubSeq(href, p, p + RunLen(href, p, LangChars) - 1)

\* the callback of the link pass
LinkRender(txt, href) ==
    IF ThingId(href) # Null
    THEN "[thing=" \o ThingId(href) \o "]" \o txt \o "[/thing]"
    ELSE IF UserName(href) # Null
    THEN "[user=0]" \o UserName(href) \o "[/user]"
    ELSE "[url=" \o href \o "]" \o txt \o "[/url]"

Bullets == {"-", "*", "+"}

\* the marker of a list line at b: its length, 0 when none.  bullet is the
\* bullet the line must repeat (\2), "" for the first line and in ordered lists
MarkerLen(t, b, ordered, bullet) ==
    IF ordered
    THEN LET d == RunLen(t, b, DigitChars)
         IN  IF d >= 1 /\ Ch(t, b + d) = "." THEN d + 1 ELSE 0
    ELSE IF Ch(t, b) \in Bullets /\ (bullet = "" \/ Ch(t, b) = bullet)
         THEN 1 ELSE 0

\* ([ \t]*)([-*+])\s+(.+)  resp.  ([ \t]*)\d+\.\s+(.+)  at p:
\* <<end, indent, bullet>>, end = 0 when none
FirstItem(t, p, ordered) ==
    LET k == RunLen(t, p, {" ", "\t"})
        ml == MarkerLen(t, p + k, ordered, "")
        m == SpaceThenText(t, p + k + ml)
    IN  IF ml > 0 /\ m[2] > 0
        THEN <<m[2], SubSeq(t, p, p + k - 1), IF ordered THEN "" ELSE Ch(t, p + k)>>
        ELSE <<0, "", "">>

\* (?:\n\1\2\s+.+)*  resp.  (?:\n\1\d+\.\s+.+)*  at e: index just after the
\* last item line it takes
RECURSIVE MoreItems(_, _, _, _, _)
MoreItems(t, e, indent, bullet, ordered) ==
    LET b == e + 1 + Len(indent)
        ml == MarkerLen(t, b, ordered, bullet)
        m == SpaceThenText(t, b + ml)
    IN  IF /\ Ch(t, e) = NL
           /\ MatchAt(t, e + 1, indent, FALSE)
           /\ ml > 0 /\ (ordered \/ bullet # "")
           /\ m[2] > 0
        THEN MoreItems(t, m[2], indent, bullet, ordered)
        ELSE e

\* the item lines from p on
ItemsEnd(t, p, ordered) ==
    LET f == FirstItem(t, p, ordered)
    IN  IF f[1] = 0 THEN 0 ELSE MoreItems(t, f[1], f[2], f[3], ordered)

\* the list regexes at i; (?:^|\n) tries the start of the string first
ListBlockEnd(t, i, ordered) ==
    IF i = 1 /\ ItemsEnd(t, 1, ordered) > 0 THEN ItemsEnd(t, 1, ordered)
    ELSE IF Ch(t, i) = NL THEN ItemsEnd(t, i + 1, ordered)
    ELSE 0

\* l.replace(/^[ \t]*[-*+]\s+/, "")  resp.  l.replace(/^[ \t]*\d+\.\s+/, "")
StripMarker(l, ordered) ==
    LET k == RunLen(l, 1, {" ", "\t"})
        ml == MarkerLen(l, 1 + k, ordered, "")
        w == RunLen(l, 1 + k + ml, WhiteSpace)
    IN  IF ml > 0 /\ w >= 1 THEN SubSeq(l, 1 + k + ml + w, Len(l)) ELSE l

\* the callback of the list passes (the closing string of the block is
\* \n[/list] resp. \n[/olist], as the second copy of the converter writes it)
ListBlockRender(block, ordered) ==
    LET lines == SplitLines(Trim(block))
        items == [k \in 1..Len(lines) |-> Trim(StripMarker(lines[k], ordered))]
        tag == IF ordered THEN "olist" ELSE "list"
    IN  NL \o "[" \o tag \o "]" \o NL
           \o Join([k \in 1..Len(items) |-> "[*] " \o items[k]], NL)
           \o NL \o "[/" \o tag \o "]"

MdKindsBeforeQuotes == << "fence", "inlinecode" >>

MdKindsAfterQuotes ==
    << "heading", "bold", "italic*", "italic_", "strike", "link", "image",
       "ulist", "olist", "hardbreak", "underline" >>

\* the regex of each pass at position i of t: index just after its match, or 0
MdMatchEnd(kind, t, i) ==
    CASE kind = "fence"      -> FenceEnd(t, i)
      [] kind = "inlinecode" -> InlineCodeEnd(t, i)
      [] kind = "heading"    -> HeadingMatch(t, i)[3]
      [] kind = "bold"       -> PairEnd(t, i, "**", "**", FALSE)
      [] kind = "italic*"    -> EmphasisEnd(t, i, "*")
      [] kind = "italic_"    -> EmphasisEnd(t, i, "_")
      [] kind = "strike"     -> PairEnd(t, i, "~~", "~~", FALSE)
      [] kind = "link"       -> LinkEnd(t, i)
      [] kind = "image"      -> ImageEnd(t, i)
      [] kind = "ulist"      -> ListBlockEnd(t, i, FALSE)
      [] kind = "olist"      -> ListBlockEnd(t, i, TRUE)
      [] kind = "hardbreak"  -> IF MatchAt(t, i, "  " \o NL, FALSE) THEN i + 3 ELSE 0
      [] kind = "underline"  -> PairEnd(t, i, "<u>", "</u>", TRUE)

\* the replacement each pass gives for its match t[i..e-1]
MdRender(kind, t, i, e) ==
    CASE kind = "fence"      ->
            "[code]" \o NL \o TrimNewlines(Body(t, i, e, FenceOpenLen(t, i), 4))
               \o NL \o "[/code]"
      [] kind = "inlinecode" -> "[tt]" \o Body(t, i, e, 1, 1) \o "[/tt]"
      [] kind = "heading"    ->
            LET m == HeadingMatch(t, i)
            IN  "[size=" \o ToStr(headingToSize(SubSeq(t, i, i + m[1] - 1))) \o "]"
                   \o Trim(SubSeq(t, m[2], e - 1)) \o "[/size]"
      [] kind = "bold"       -> "[b]" \o Body(t, i, e, 2, 2) \o "[/b]"
      [] kind = "italic*"    -> "[i]" \o Body(t, i, e, 1, 1) \o "[/i]"
      [] kind = "italic_"    -> "[i]" \o Body(t, i, e, 1, 1) \o "[/i]"
      [] kind = "strike"     -> "[s]" \o Body(t, i, e, 2, 2) \o "[/s]"
      [] kind = "link"       ->
            LET n == RunLenNot(t, i + 1, {"]"})
            IN  LinkRender(SubSeq(t, i + 1, i + n), SubSeq(t, i + n + 3, e - 2))
      [] kind = "image"      ->
            LET n == RunLenNot(t, i + 2, {"]"})
            IN  "[img]" \o SubSeq(t, i + n + 4, e - 2) \o "[/img]"
      [] kind = "ulist"      -> ListBlockRender(SubSeq(t, i, e - 1), FALSE)
      [] kind = "olist"      -> ListBlockRender(SubSeq(t, i, e - 1), TRUE)
      [] kind = "hardbreak"  -> "[br]" \o NL
      [] kind = "underline"  -> "[u]" \o Body(t, i, e, 3, 4) \o "[/u]"

\* out.replace(regex-with-g-flag, replacement) from position cur on
RECURSIVE MdReplaceAll(_, _, _)
MdReplaceAll(kind, t, cur) ==
    LET S == {i \in cur..Len(t) : MdMatchEnd(kind, t, i) > 0}
    IN  IF S = {} THEN SubSeq(t, cur, Len(t))
        ELSE LET i == Min(S)
                 e == MdMatchEnd(kind, t, i)
             IN  SubSeq(t, cur, i - 1) \o MdRender(kind, t, i, e)
                    \o MdReplaceAll(kind, t, e)

\* the regex passes named by kinds, from pass k on
RECURSIVE MdPassesFrom(_, _, _)
MdPassesFrom(kinds, t, k) ==
    IF k > Len(kinds) THEN t
    ELSE MdPassesFrom(kinds, MdReplaceAll(kinds[k], t, 1), k + 1)

\* the passes of markdownToBgg in the order of the source
MdPasses(t) ==
    MdPassesFrom(MdKindsAfterQuotes,
                 blockquoteMarkdownToBgg(MdPassesFrom(MdKindsBeforeQuotes, t, 1)),
                 1)

-----------------------------------------------------------------------------
(* Inputs *)

\* every concatenation of at most n strings of P
RECURSIVE Concats(_, _)
Concats(P, n) ==
    IF n = 0 THEN {""}
    ELSE LET S == Concats(P, n - 1)
         IN  S \cup {s \o q : s \in S, q \in P}

BggPieces == {"[code]", "[/code]", "[b]y[/b]", "[b]", "[/b]", "x", NL}

MdPieces ==
    {FENCE \o NL, NL \o FENCE, "*a*", "x", NL, "![a](http://h)", "![](http://h)"}

\* the texts of the items of the list inputs
ItemTexts == {"a", "b2", "*c*"}

\* every sequence of 1 .. n item texts
RECURSIVE ItemSeqs(_)
ItemSeqs(n) ==
    IF n = 0 THEN {<<>>}
    ELSE LET S == ItemSeqs(n - 1)
         IN  S \cup {Append(q, it) : q \in S, it \in ItemTexts}

\* a [list] / [olist] block of the given items, one item per line or all items
\* on one line
ListBlock(tag, items, onLines) ==
    LET mark == IF onLines THEN "[*] " ELSE "[*]"
        sep == IF onLines THEN NL ELSE ""
    IN  "[" \o tag \o "]" \o sep
           \o Join([k \in 1..Len(items) |-> mark \o items[k]], sep)
           \o sep \o "[/" \o tag \o "]"

ListInputs ==
    {ListBlock(tag, items, onLines) :
        tag \in {"list", "olist"}, items \in ItemSeqs(MaxItems) \ {<<>>},
        onLines \in BOOLEAN}

Inputs(d) ==
    IF d = "bgg2md" THEN Concats(BggPieces, MaxPieces) \cup ListInputs
    ELSE Concats(MdPieces, MaxPieces)

-----------------------------------------------------------------------------
(* The converter as a state machine *)

Directions == {"bgg2md", "md2bgg"}

EmptyStore == [k \in {} |-> ""]

NoCall == [dir |-> "", input |-> "", out |-> ""]

Init ==
    /\ dir \in Directions
    /\ input \in Inputs(dir)
    /\ pc = "call"
    /\ text = ""
    /\ t1 = ""
    /\ store = EmptyStore
    /\ counter = 0
    /\ startIdx = -1
    /\ afterStart = -1
    /\ endIdx = -1
    /\ run = "first"
    /\ first = NoCall
    /\ hashes = ""
    /\ size = ""

\* bggToMarkdown(input) / markdownToBgg(input) is entered:
\* `if (!input) return input`, else protectSegments starts
Enter ==
    /\ pc = "call"
    /\ text' = input
    /\ pc' = IF input = "" THEN "done" ELSE "protect"
    /\ UNCHANGED <<dir, input, t1, store, counter, startIdx, afterStart, endIdx,
                   run, first, hashes, size>>

\* one iteration of the while loop of protectSegments that replaces a span
ProtectStep ==
    /\ pc = "protect"
    /\ LET m == StartMatch(dir, text, ExecFrom(startIdx + Len(Token(RuleName(dir), counter))))
           s0 == m[1]
           a0 == m[1] + m[2]
           em == EndMatch(dir, text, ExecFrom(a0))
           e0 == em[1] + em[2]
           chunk == Slice(text, s0, e0)
           token == Token(RuleName(dir), counter)
           new == Splice(text, s0, e0, token)
       IN  /\ m[1] >= 0
           /\ em[1] >= 0
           /\ startIdx' = s0
           /\ afterStart' = a0
           /\ endIdx' = e0
           /\ IF Len(new) > MaxStringLength
              THEN /\ pc' = "thrown"
                   /\ UNCHANGED <<text, store, counter>>
              ELSE /\ pc' = "protect"
                   /\ text' = new
                   /\ store' = Put(store, token, chunk)
                   /\ counter' = counter + 1
    /\ UNCHANGED <<dir, input, t1, run, first, hashes, size>>

\* the while loop ends: the start regex matches nowhere
ProtectNoMatch ==
    /\ pc = "protect"
    /\ StartMatch(dir, text, ExecFrom(0))[1] < 0
    /\ pc' = "passes"
    /\ t1' = text
    /\ UNCHANGED <<dir, input, text, store, counter, startIdx, afterStart, endIdx,
                   run, first, hashes, size>>

\* `if (!endMatch) break; // unmatched; give up`
ProtectGiveUp ==
    /\ pc = "protect"
    /\ LET m == StartMatch(dir, text, ExecFrom(0))
       IN  /\ m[1] >= 0
           /\ EndMatch(dir, text, ExecFrom(m[1] + m[2]))[1] < 0
           /\ startIdx' = m[1]
           /\ afterStart' = m[1] + m[2]
    /\ pc' = "passes"
    /\ t1' = text
    /\ UNCHANGED <<dir, input, text, store, counter, endIdx, run, first,
                   hashes, size>>

\* the rewrite passes of bggToMarkdown, [code] to [br]
BggRewrite ==
    /\ pc = "passes"
    /\ dir = "bgg2md"
    /\ text' = BggPasses(text)
    /\ pc' = "restore"
    /\ UNCHANGED <<dir, input, t1, store, counter, startIdx, afterStart, endIdx,
                   run, first, hashes, size>>

\* the rewrite passes of markdownToBgg, fenced code to underline
MdRewrite ==
    /\ pc = "passes"
    /\ dir = "md2bgg"
    /\ text' = MdPasses(text)
    /\ pc' = "restore"
    /\ UNCHANGED <<dir, input, t1, store, counter, startIdx, afterStart, endIdx,
                   run, first, hashes, size>>

\* `out = restore(out); return out;`
Restore ==
    /\ pc = "restore"
    /\ text' = restore(store, text)
    /\ pc' = "done"
    /\ UNCHANGED <<dir, input, t1, store, counter, startIdx, afterStart, endIdx,
                   run, first, hashes, size>>

\* the caller converts the result of the first call: convert(out, d)
Reconvert(d) ==
    /\ pc = "done"
    /\ run = "first"
    /\ first' = [dir |-> dir, input |-> input, out |-> text]
    /\ run' = "second"
    /\ dir' = d
    /\ input' = text
    /\ pc' = "call"
    /\ text' = ""
    /\ t1' = ""
    /\ store' = EmptyStore
    /\ counter' = 0
    /\ startIdx' = -1
    /\ afterStart' = -1
    /\ endIdx' = -1
    /\ UNCHANGED <<hashes, size>>

Next ==
    \/ Enter
    \/ ProtectStep
    \/ ProtectNoMatch
    \/ ProtectGiveUp
    \/ BggRewrite
    \/ MdRewrite
    \/ Restore
    \/ \E d \in Directions : Reconvert(d)

Spec == Init /\ [][Next]_vars

-----------------------------------------------------------------------------
(* The size/heading helpers on their own *)

\* a heading marker of n hashes
RECURSIVE Hashes(_)
Hashes(n) == IF n = 0 THEN "" ELSE "#" \o Hashes(n - 1)

SizeInit ==
    /\ pc = "size0"
    /\ hashes \in {Hashes(n) : n \in 1..MaxDepth}
    /\ size \in {ToStr(n) : n \in 0..MaxSize}
    /\ input = hashes
    /\ dir = ""
    /\ text = ""
    /\ t1 = ""
    /\ store = EmptyStore
    /\ counter = 0
    /\ startIdx = -1
    /\ afterStart = -1
    /\ endIdx = -1
    /\ run = "first"
    /\ first = NoCall

\* `const size = headingToSize(hashes)`, written into the tag as `[size=${size}]`
ApplyHeadingToSize ==
    /\ pc = "size0"
    /\ size' = ToStr(headingToSize(hashes))
    /\ pc' = "size1"
    /\ UNCHANGED <<dir, input, text, t1, store, counter, startIdx, afterStart,
                   endIdx, run, first, hashes>>

\* `const hashes = sizeToHeading(sz)` on the size headingToSize gave
ApplySizeToHeading ==
    /\ pc = "size1"
    /\ hashes' = sizeToHeading(size)
    /\ pc' = "size2"
    /\ UNCHANGED <<dir, input, text, t1, store, counter, startIdx, afterStart,
                   endIdx, run, first, size>>

\* `const hashes = sizeToHeading(sz)` on the size of a [size=sz] tag
ApplySizeToHeadingOfTag ==
    /\ pc = "size0"
    /\ hashes' = sizeToHeading(size)
    /\ pc' = "size3"
    /\ UNCHANGED <<dir, input, text, t1, store, counter, startIdx, afterStart,
                   endIdx, run, first, size>>

SizeNext ==
    \/ ApplyHeadingToSize
    \/ ApplySizeToHeading
    \/ ApplySizeToHeadingOfTag

SizeSpec == SizeInit /\ [][SizeNext]_vars

-----------------------------------------------------------------------------
(* Properties *)

Done(d) == pc = "done" /\ dir = d

\* the [code]...[/code] pairs of t from position cur on, left to right, each
\* closed by the first [/code] after its [code]: <<start, index after the end>>
RECURSIVE CodeSpans(_, _)
CodeSpans(t, cur) ==
    LET i == IndexOf(t, "[code]", cur, TRUE)
        j == IF i = 0 THEN 0 ELSE IndexOf(t, "[/code]", i + 6, TRUE)
    IN  IF j = 0 THEN {} ELSE {<<i, j + 7>>} \cup CodeSpans(t, j + 7)

CodeBodies(t) == {SubSeq(t, sp[1] + 6, sp[2] - 8) : sp \in CodeSpans(t, 1)}

\* the fenced blocks of t: an opening fence line, a body, a closing fence
RECURSIVE FenceSpans(_, _)
FenceSpans(t, cur) ==
    LET S == {i \in cur..Len(t) : FenceEnd(t, i) > 0}
    IN  IF S = {} THEN {}
        ELSE {<<Min(S), FenceEnd(t, Min(S))>>} \cup FenceSpans(t, FenceEnd(t, Min(S)))

FenceBodies(t) ==
    {SubSeq(t, sp[1] + FenceOpenLen(t, sp[1]), sp[2] - 5) : sp \in FenceSpans(t, 1)}

\* C1: when markdownToBgg returns, every fenced code block of its input is in
\* the output as a [code]...[/code] pair that holds the block's body
\* unchanged (leading and trailing blank lines trimmed).
C1_FencedBodyKeptInCodeTag ==
    Done("md2bgg") =>
        \A body \in FenceBodies(input) :
            Contains(text, "[code]" \o NL \o TrimNewlines(body) \o NL \o "[/code]")

\* C2: when bggToMarkdown returns, the body of every [code]...[/code] pair of
\* its input is in the output byte for byte, whatever markup it holds.
C2_CodeBodyVerbatim ==
    Done("bgg2md") => \A body \in CodeBodies(input) : Contains(text, body)

\* a bggToMarkdown call has returned whose input held markup inside a code pair
C2_Witness ==
    /\ Done("bgg2md")
    /\ \E body \in CodeBodies(input) :
          Contains(body, "[b]y[/b]") /\ Contains(text, body)
    /\ counter > 0

\* C3: when bggToMarkdown returns, every [code]body[/code] pair of its input
\* is rendered as a fence line, the body with its leading and trailing blank
\* lines trimmed, and a closing fence line; no [code] tag is left.
C3_CodeRenderedAsFence ==
    Done("bgg2md") =>
        /\ \A body \in CodeBodies(input) :
              Contains(text, NL \o FENCE \o NL \o TrimNewlines(body)
                               \o NL \o FENCE \o NL)
        /\ CodeBodies(input) # {} => IndexOf(text, "[code]", 1, TRUE) = 0

\* C4: no call ends by throwing: the loop of protectSegments stops for every
\* input, malformed ones included.
C4_NeverThrows == pc # "thrown"

\* C5: every token protectSegments emitted is still whole in the text when
\* the rewrite passes are over, and no token is left in the returned string.
C5_TokensReachRestore ==
    /\ pc = "restore" => \A tok \in DOMAIN store : Contains(text, tok)
    /\ pc = "done" => \A tok \in DOMAIN store : ~Contains(text, tok)

\* both calls were bggToMarkdown and the second one has returned
SecondBggDone ==
    /\ Done("bgg2md")
    /\ run = "second"
    /\ first.dir = "bgg2md"

NoLeftoverTag(t) ==
    \A k \in 1..Len(BggKinds) : \A i \in 1..Len(t) : BggMatchEnd(BggKinds[k], t, i) = 0

ItemLines(items, ordered) ==
    Join([k \in 1..Len(items) |->
            (IF ordered THEN ToStr(k) \o ". " ELSE "- ") \o items[k]], NL)

\* the [list] / [olist] block markdownToBgg is to give for the items
TagBlock(tag, items) ==
    "[" \o tag \o "]" \o NL
        \o Join([k \in 1..Len(items) |-> "[*] " \o items[k]], NL)
        \o NL \o "[/" \o tag \o "]"

\* the list round trip for the blocks whose items are all drawn from Texts
ListRoundTrip(Texts) ==
    \A tag \in {"list", "olist"}, onLines \in BOOLEAN :
    \A items \in ItemSeqs(MaxItems) \ {<<>>} :
        (\A k \in 1..Len(items) : items[k] \in Texts) =>
           /\ (Done("bgg2md") /\ run = "first"
                 /\ input = ListBlock(tag, items, onLines))
                 => text = NL \o ItemLines(items, tag = "olist") \o NL
           /\ (Done("md2bgg") /\ run = "second" /\ first.dir = "bgg2md"
                 /\ first.input = ListBlock(tag, items, onLines))
                 => text = NL \o TagBlock(tag, items) \o NL

\* C7 as stated: a [list] / [olist] block of N >= 1 items becomes N item lines
\* in order (dashes, resp. 1. .. N.), and markdownToBgg turns those back into
\* one tag pair of the same kind with N [*] lines holding the same item texts.
C7_ListRoundTrip == ListRoundTrip(ItemTexts)

\* the item texts that hold no Markdown markup
PlainItemTexts == {"a", "b2"}

\* C7 as amended: the same, for items whose texts are plain (hold no markup
\* that markdownToBgg rewrites).
C7_ListRoundTripPlainItems == ListRoundTrip(PlainItemTexts)

\* markdownToBgg has returned the ordered two-item list it was given back
C7_Witness ==
    /\ Done("md2bgg")
    /\ run = "second"
    /\ first.input = ListBlock("olist", <<"a", "b2">>, TRUE)
    /\ first.out = NL \o "1. a" \o NL \o "2. b2" \o NL
    /\ text = NL \o TagBlock("olist", <<"a", "b2">>) \o NL

\* the entry of the table whose threshold is the highest one not above n
Deciding(n) ==
    LET K == {k \in 1..Len(sizeToHashes) : sizeToHashes[k].threshold <= n}
    IN  IF K = {} THEN Null
        ELSE sizeToHashes[CHOOSE k \in K : \A j \in K :
                 sizeToHashes[k].threshold >= sizeToHashes[j].threshold].hashes

\* C8: for a heading of depth d in 1..6, headingToSize gives a size that is at
\* least the table's threshold of depth d, and sizeToHeading of that size
\* gives a heading of depth d or coarser, of exactly depth d for d in 1..5;
\* sizeToHeading answers with the entry of the highest threshold not above
\* the size.
C8_SizeHeadingRoundTrip ==
    LET d == Len(input)
    IN  /\ (pc = "size1" /\ d <= 6) =>
              ParseDigits(size, 0) >= sizeToHashes[d].threshold
        /\ pc = "size2" =>
              /\ hashes # Null
              /\ Len(hashes) <= d
              /\ d <= 5 => Len(hashes) = d
        /\ pc = "size3" => hashes = Deciding(ParseDigits(size, 0))

\* a heading of depth 3 went to a size and came back as a heading of depth 3
C8_Witness ==
    /\ pc = "size2"
    /\ input = "###"
    /\ size = "16"
    /\ hashes = "###"

\* C9: the end match of every protected span lies at or after the end of its
\* start match.
C9_EndNotBeforeStart ==
    endIdx >= 0 =>
        endIdx - (IF dir = "bgg2md" THEN 7 ELSE 4) >= afterStart

\* C10: markdownToBgg turns every image with an http(s) URL, whatever its alt
\* text, into an [img] tag around the URL.
C10_ImageToImgTag ==
    (Done("md2bgg") /\ ~Contains(input, BT)) =>
        \A alt \in {"", "a"} :
            Contains(input, "![" \o alt \o "](http://h)")
                => Contains(text, "[img]http://h[/img]")

====
